---------------------------- MODULE Spec2Model ----------------------------
(***************************************************************************)
(* A model of cblog's automatic buffer (buffer.c / buffer.h): struct buf,  *)
(* the allocation and growth functions, the append functions, reference    *)
(* counting through bufset/bufrelease, and the comparison functions.       *)
(*                                                                         *)
(* Memory is a table of struct buf records.  Records 1..MaxBufs are the    *)
(* ones malloc hands out; record V is a VOLATILE_BUF on the caller's stack *)
(* and record K a CONST_BUF.  size_t arithmetic is done modulo SizeMod.    *)
(***************************************************************************)
EXTENDS Integers, Sequences, FiniteSets, TLC

\* size_t is modelled as a 4-bit unsigned integer: values 0 .. SizeMod-1.
SizeMod == 16

\* The allocator never grants a request of more than MaxAlloc bytes.
MaxAlloc == 3

\* Number of struct buf records malloc can hand out.
MaxBufs == 2

\* Number of "struct buf *" variables the caller passes to bufset.
MaxSlots == 2

\* Longest data block / string the caller passes in.
MaxLen == 2

\* Cap on the reference count of the constant buffer (bufset never lowers it).
MaxRef == 2

VARIABLES
    mem,                     \* handle -> struct buf
    st,                      \* handle -> "unused" | "live" | "freed"
    frees,                   \* handle -> number of free(buf) calls on the record
    own,                     \* handle -> the pointer bufnew/bufdup returned is still held
    slot,                    \* slot -> handle stored in that variable (0 = NULL)
    buffer_stat_nb,
    buffer_stat_alloc_bytes,
    last,                    \* the last call: function, buffer argument, result
    fault                    \* "none" | "hang" (call never returns) | "ub"

vars == <<mem, st, frees, own, slot, buffer_stat_nb, buffer_stat_alloc_bytes,
          last, fault>>

---------------------------------------------------------------------------
\* Values

Byte == {0, 1, 2}

\* A byte of a block that was never written: its value is indeterminate.
Indet == 3
NullH == 0
Heap == 1 .. MaxBufs
V == MaxBufs + 1
K == MaxBufs + 2
Handles == 1 .. (MaxBufs + 2)
Slots == 1 .. MaxSlots
SizeT == 0 .. (SizeMod - 1)

\* Growth units the caller uses: small ones and the two largest size_t values.
Units == {1, 2, SizeMod - 2, SizeMod - 1}

Min(x, y) == IF x < y THEN x ELSE y
Sign(x) == IF x < 0 THEN -1 ELSE IF x > 0 THEN 1 ELSE 0

\* All byte sequences of length 0 .. n
SeqsUpTo(S, n) == UNION {[1 .. k -> S] : k \in 0 .. n}

\* C strings (without their terminator) of length 0 .. MaxLen
CStrs == SeqsUpTo(Byte \ {0}, MaxLen)

Take(s, n) == SubSeq(s, 1, Min(n, Len(s)))

\* struct buf.  data is the allocated block (Len(data) bytes), dnull says
\* whether the data pointer is NULL.
Buf(data, dnull, size, asize, unit, ref) ==
    [data |-> data, dnull |-> dnull, size |-> size, asize |-> asize,
     unit |-> unit, ref |-> ref]

NoBuf == Buf(<<>>, TRUE, 0, 0, 0, 0)

\* The logical contents: the first size bytes that lie in the block.
Contents(b) == Take(b.data, b.size)

\* CONST_BUF(name, string): { string, sizeof string - 1, sizeof string }
CONST_BUF(str) == Buf(str \o <<0>>, FALSE, Len(str), Len(str) + 1, 0, 0)

\* VOLATILE_BUF(name, strname): { strname, strlen(strname) }
VOLATILE_BUF(arr, len) == Buf(arr, FALSE, len, 0, 0, 0)

\* strlen of a char array holding a terminator
RECURSIVE StrlenFrom(_, _)
StrlenFrom(arr, i) ==
    IF i > Len(arr) \/ arr[i] = 0 THEN i - 1 ELSE StrlenFrom(arr, i + 1)
Strlen(arr) == StrlenFrom(arr, 1)

---------------------------------------------------------------------------
\* malloc / realloc

\* malloc(n), realloc(p, n): may always fail, and fails above MaxAlloc.
\* The result is the set holding the new block (empty when the request
\* cannot be granted): old bytes kept, new bytes indeterminate.
CanAlloc(n) == n <= MaxAlloc

Realloc(data, n) ==
    IF ~CanAlloc(n) THEN {}
    ELSE { Take(data, n) \o [i \in 1 .. (n - Min(n, Len(data))) |-> Indet] }

\* The record malloc(sizeof (struct buf)) returns: the lowest unused one.
FreshRec == IF \E a \in Heap : st[a] = "unused"
            THEN {CHOOSE a \in Heap : st[a] = "unused" /\ \A c \in Heap : st[c] = "unused" => a <= c}
            ELSE {}

---------------------------------------------------------------------------
\* bufgrow

HANG == -1

\* while (neoasz < neosz) neoasz += buf->unit;   (size_t arithmetic)
\* HANG when the loop never ends: the values repeat within SizeMod steps.
RECURSIVE GrowLoop(_, _, _, _)
GrowLoop(neoasz, unit, neosz, fuel) ==
    IF neoasz >= neosz THEN neoasz
    ELSE IF fuel = 0 THEN HANG
    ELSE GrowLoop((neoasz + unit) % SizeMod, unit, neosz, fuel - 1)

NeoAsz(b, neosz) == GrowLoop((b.asize + b.unit) % SizeMod, b.unit, neosz, SizeMod)

\* The outcome of a call on one buffer: the value returned (HANG when the
\* call never returns), the struct buf afterwards, what is added to
\* buffer_stat_alloc_bytes, and whether memory outside a block was accessed.
Out(rc, b, add, ub) == [rc |-> rc, b |-> b, add |-> add, ub |-> ub]

\* bufgrow without its loop: one unit is added whatever the size asked for.
bufgrowOneUnit(b, neosz) ==
    IF b.unit = 0 THEN {Out(0, b, 0, FALSE)}
    ELSE IF b.asize >= neosz THEN {Out(1, b, 0, FALSE)}
    ELSE LET neoasz == (b.asize + b.unit) % SizeMod IN
         {Out(0, b, 0, FALSE)}
         \cup {Out(1, [b EXCEPT !.data = d, !.dnull = FALSE, !.asize = neoasz],
                   (neoasz - b.asize) % SizeMod, FALSE) :
               d \in Realloc(b.data, neoasz)}

\* bufgrow that reallocates to exactly the size asked for.
bufgrowExact(b, neosz) ==
    IF b.unit = 0 THEN {Out(0, b, 0, FALSE)}
    ELSE IF b.asize >= neosz THEN {Out(1, b, 0, FALSE)}
    ELSE {Out(0, b, 0, FALSE)}
         \cup {Out(1, [b EXCEPT !.data = d, !.dnull = FALSE, !.asize = neosz],
                   (neosz - b.asize) % SizeMod, FALSE) :
               d \in Realloc(b.data, neosz)}

\* bufgrow on a non-null buffer
bufgrow(b, neosz) ==
    IF b.unit = 0 THEN {Out(0, b, 0, FALSE)}
    ELSE IF b.asize >= neosz THEN {Out(1, b, 0, FALSE)}
    ELSE LET neoasz == NeoAsz(b, neosz) IN
         IF neoasz = HANG THEN {Out(HANG, b, 0, FALSE)}
         ELSE {Out(0, b, 0, FALSE)}
              \cup {Out(1, [b EXCEPT !.data = d, !.dnull = FALSE, !.asize = neoasz],
                        (neoasz - b.asize) % SizeMod, FALSE) :
                    d \in Realloc(b.data, neoasz)}

---------------------------------------------------------------------------
\* Writes into a block

\* memcpy(data + off, src, Len(src)): the bytes that fit the block are stored.
WriteAt(data, off, src) ==
    [i \in 1 .. Len(data) |->
        IF i > off /\ i <= off + Len(src) THEN src[i - off] ELSE data[i]]

Fits(data, off, n) == off + n <= Len(data)

\* vsnprintf(data + off, room, fmt, ap) for a format whose output is out:
\* at most room - 1 characters and a terminator are stored.
Vsnprintf(data, off, room, out) ==
    IF room = 0 THEN data
    ELSE WriteAt(data, off, Take(out, room - 1) \o <<0>>)

---------------------------------------------------------------------------
\* The functions, on a non-null struct buf

\* bufnullterm that counts the terminator it stores in size.
bufnulltermCounted(b) ==
    IF b.unit = 0 THEN {Out(0, b, 0, FALSE)}
    ELSE { IF g.rc = 1
           THEN Out(1, [g.b EXCEPT !.data = WriteAt(g.b.data, b.size, <<0>>),
                                   !.size = (b.size + 1) % SizeMod],
                    g.add, ~Fits(g.b.data, b.size, 1))
           ELSE g
           : g \in bufgrow(b, (b.size + 1) % SizeMod) }

\* bufnullterm.  The test buf->data[buf->size] == 0 reads a byte that may
\* never have been written: then it can go either way.
bufnullterm(b) ==
    LET x == IF b.size < Len(b.data) THEN b.data[b.size + 1] ELSE Indet
        already == {Out(1, [b EXCEPT !.data = WriteAt(b.data, b.size, <<0>>)],
                        0, ~Fits(b.data, b.size, 1))}
        store == { IF g.rc = 1
                   THEN Out(1, [g.b EXCEPT !.data = WriteAt(g.b.data, b.size, <<0>>)],
                            g.add, ~Fits(g.b.data, b.size, 1))
                   ELSE g
                   : g \in bufgrow(b, (b.size + 1) % SizeMod) }
    IN  IF b.unit = 0 THEN {Out(0, b, 0, FALSE)}
        ELSE IF b.size < b.asize
             THEN IF x = 0 THEN already
                  ELSE IF x = Indet THEN already \cup store
                  ELSE store
        ELSE store

\* bufput that copies to the start of the block instead of its tail.
bufputAtStart(b, data) ==
    LET len == Len(data) IN
    { IF g.rc = 1
      THEN Out(1, [g.b EXCEPT !.data = WriteAt(g.b.data, 0, data),
                              !.size = (b.size + len) % SizeMod],
               g.add, ~Fits(g.b.data, 0, len))
      ELSE g
      : g \in bufgrow(b, (b.size + len) % SizeMod) }

\* bufput
bufput(b, data) ==
    LET len == Len(data) IN
    { IF g.rc = 1
      THEN Out(1, [g.b EXCEPT !.data = WriteAt(g.b.data, b.size, data),
                              !.size = (b.size + len) % SizeMod],
               g.add, ~Fits(g.b.data, b.size, len))
      ELSE g
      : g \in bufgrow(b, (b.size + len) % SizeMod) }

\* bufputs: bufput(buf, str, strlen (str))
bufputs(b, str) == bufput(b, Take(str, Strlen(str)))

\* bufputc
bufputc(b, c) ==
    { IF g.rc = 1
      THEN Out(1, [g.b EXCEPT !.data = WriteAt(g.b.data, b.size, <<c>>),
                              !.size = (b.size + 1) % SizeMod],
               g.add, ~Fits(g.b.data, b.size, 1))
      ELSE g
      : g \in bufgrow(b, (b.size + 1) % SizeMod) }

\* bufreset without its update of buffer_stat_alloc_bytes.
bufresetUncounted(b) ==
    IF b.unit = 0 \/ b.asize = 0 THEN {Out(0, b, 0, FALSE)}
    ELSE {Out(1, [b EXCEPT !.data = <<>>, !.dnull = TRUE, !.size = 0, !.asize = 0],
              0, FALSE)}

\* bufreset
bufreset(b) ==
    IF b.unit = 0 \/ b.asize = 0 THEN {Out(0, b, 0, FALSE)}
    ELSE {Out(1, [b EXCEPT !.data = <<>>, !.dnull = TRUE, !.size = 0, !.asize = 0],
              (0 - b.asize) % SizeMod, FALSE)}

\* bufslurp without its memmove: only size is lowered.
bufslurpNoMove(b, len) ==
    IF b.unit = 0 \/ len <= 0 THEN {Out(0, b, 0, FALSE)}
    ELSE IF len >= b.size THEN {Out(1, [b EXCEPT !.size = 0], 0, FALSE)}
    ELSE {Out(1, [b EXCEPT !.size = b.size - len], 0, FALSE)}

\* bufslurp without its test of the growth unit.
bufslurpAnyUnit(b, len) ==
    IF len <= 0 THEN {Out(0, b, 0, FALSE)}
    ELSE IF len >= b.size THEN {Out(1, [b EXCEPT !.size = 0], 0, FALSE)}
    ELSE LET nsz == b.size - len IN
         {Out(1, [b EXCEPT !.size = nsz,
                           !.data = WriteAt(b.data, 0, SubSeq(b.data, len + 1, len + nsz))],
              0, ~Fits(b.data, len, nsz))}

\* bufslurp
bufslurp(b, len) ==
    IF b.unit = 0 \/ len <= 0 THEN {Out(0, b, 0, FALSE)}
    ELSE IF len >= b.size THEN {Out(1, [b EXCEPT !.size = 0], 0, FALSE)}
    ELSE LET nsz == b.size - len IN
         {Out(1, [b EXCEPT !.size = nsz,
                           !.data = WriteAt(b.data, 0, SubSeq(b.data, len + 1, len + nsz))],
              0, ~Fits(b.data, len, nsz))}

\* vbufprintf, for a format and arguments whose output is out; err says
\* that vsnprintf reports an error (a negative result) instead.
vbufprintf(b, out, err) ==
    LET first == IF b.size >= b.asize
                 THEN bufgrow(b, (b.size + 1) % SizeMod)
                 ELSE {Out(1, b, 0, FALSE)}
        n == IF err THEN -1 ELSE Len(out)
        Fmt(x) == IF err THEN x.data
                  ELSE Vsnprintf(x.data, x.size, (x.asize - x.size) % SizeMod, out)
        Ub(x) == ~err /\ ~Fits(x.data, x.size,
                               Min(Len(out) + 1, (x.asize - x.size) % SizeMod))
        Finish(x, add, ub) ==
            IF n < 0 THEN Out(0, x, add, ub)
            ELSE Out(1, [x EXCEPT !.size = (x.size + n) % SizeMod], add, ub)
        Second(f) ==
            LET x1 == [f.b EXCEPT !.data = Fmt(f.b)]
                u1 == Ub(f.b)
            IN  IF (n % SizeMod) >= (x1.asize - x1.size) % SizeMod
                THEN { IF g.rc = 1
                       THEN Finish([g.b EXCEPT !.data = Fmt(g.b)],
                                   (f.add + g.add) % SizeMod, u1 \/ Ub(g.b))
                       ELSE Out(g.rc, g.b, (f.add + g.add) % SizeMod, u1)
                       : g \in bufgrow(x1, (x1.size + n + 1) % SizeMod) }
                ELSE {Finish(x1, f.add, u1)}
    IN  UNION { IF f.rc = 1 THEN Second(f) ELSE {f} : f \in first }

\* bufprintf
bufprintf(b, out, err) ==
    IF b.unit = 0 THEN {Out(0, b, 0, FALSE)} ELSE vbufprintf(b, out, err)

\* bufdup of a non-null source, once malloc has returned the record: the
\* outcome with rc = 0 is a failed malloc of the data (the record is freed).
bufdup(src, dupunit) ==
    IF src.size = 0
    THEN {Out(1, Buf(<<>>, TRUE, 0, 0, dupunit, 1), 0, FALSE)}
    ELSE LET blocks == ((src.size + dupunit - 1) % SizeMod) \div dupunit
             asize == (blocks * dupunit) % SizeMod
         IN  {Out(0, NoBuf, 0, FALSE)}
             \cup {Out(1, Buf(WriteAt(blk, 0, Take(src.data, src.size)), FALSE,
                              src.size, asize, dupunit, 1),
                       asize, ~Fits(blk, 0, src.size) \/ ~Fits(src.data, 0, src.size)) :
                   blk \in Realloc(<<>>, asize)}

\* A byte read at index i (from 1) of a block: any value when the byte was
\* never written or lies outside the block.
Rd(data, i) == IF i <= Len(data) /\ data[i] # Indet THEN {data[i]} ELSE Byte

\* strncmp(s1, s2, n) from index i on, s2 holding its terminator: the
\* possible pairs <<result, whether s1 was read outside its block>>.
RECURSIVE Strncmp(_, _, _, _)
Strncmp(s1, s2, n, i) ==
    IF i > n THEN {<<0, FALSE>>}
    ELSE UNION { IF x # s2[i] THEN {<<x - s2[i], i > Len(s1)>>}
                 ELSE IF x = 0 THEN {<<0, i > Len(s1)>>}
                 ELSE {<<r[1], r[2] \/ i > Len(s1)>> : r \in Strncmp(s1, s2, n, i + 1)}
                 : x \in Rd(s1, i) }

\* bufcmps(a, b): anull says a is NULL, bnull that b is NULL (then strlen(b)
\* has no defined result and every outcome is flagged).
bufcmps(anull, a, bnull, str) ==
    IF bnull
    THEN IF anull \/ a.size = 0 THEN {<<-1, TRUE>>, <<0, TRUE>>}
         ELSE {<<-1, TRUE>>, <<0, TRUE>>, <<1, TRUE>>}
    ELSE LET len == Len(str)
             cmplen == IF len < a.size THEN a.size ELSE len
         IN  IF anull \/ a.size = 0 THEN {<<0, FALSE>>}
             ELSE { IF r[1] # 0 THEN r
                    ELSE IF a.size = len THEN <<0, r[2]>>
                    ELSE IF a.size < len THEN <<-1, r[2]>>
                    ELSE <<1, r[2]>>
                    : r \in Strncmp(a.data, str \o <<0>>, cmplen, 1) }

\* lower(c): 'A' = 65, 'Z' = 90, 'a' = 97
lower(c) == IF c >= 65 /\ c <= 90 THEN c - 65 + 97 ELSE c

\* The loops of bufcmp and bufcasecmp: the pairs <<i, ub>> of the index the
\* loop stops at (counted from 0) and whether a byte outside a block was
\* read on the way; nocase says the bytes go through lower.
Fold(nocase, c) == IF nocase THEN lower(c) ELSE c

RECURSIVE CmpLoop(_, _, _, _, _)
CmpLoop(a, b, cmplen, i, nocase) ==
    IF i >= cmplen THEN {<<i, FALSE>>}
    ELSE UNION { IF Fold(nocase, x) = Fold(nocase, y)
                 THEN {<<r[1], r[2] \/ i >= Len(a.data) \/ i >= Len(b.data)>> :
                         r \in CmpLoop(a, b, cmplen, i + 1, nocase)}
                 ELSE {<<i, i >= Len(a.data) \/ i >= Len(b.data)>>}
                 : x \in Rd(a.data, i + 1), y \in Rd(b.data, i + 1) }

\* What bufcmp and bufcasecmp return once the loop has stopped at i
CmpTail(a, b, i, ub, nocase) ==
    IF i < a.size
    THEN IF i < b.size
         THEN {<<Fold(nocase, x) - Fold(nocase, y), ub \/ i >= Len(a.data) \/ i >= Len(b.data)>> :
                 x \in Rd(a.data, i + 1), y \in Rd(b.data, i + 1)}
         ELSE {<<1, ub>>}
    ELSE IF i < b.size THEN {<<-1, ub>>} ELSE {<<0, ub>>}

CmpWith(same, anull, a, bnull, b, nocase) ==
    IF same THEN {<<0, FALSE>>}
    ELSE IF anull THEN {<<-1, FALSE>>}
    ELSE IF bnull THEN {<<1, FALSE>>}
    ELSE LET cmplen == IF a.size < b.size THEN a.size ELSE b.size IN
         UNION {CmpTail(a, b, r[1], r[2], nocase) : r \in CmpLoop(a, b, cmplen, 0, nocase)}

\* bufcasecmp that folds the case of a's bytes only.
bufcasecmpOneSide(same, anull, a, bnull, b) ==
    IF same THEN {<<0, FALSE>>}
    ELSE IF anull THEN {<<-1, FALSE>>}
    ELSE IF bnull THEN {<<1, FALSE>>}
    ELSE LET cmplen == IF a.size < b.size THEN a.size ELSE b.size
             Stop(i) == i >= cmplen \/ lower(a.data[i + 1]) # b.data[i + 1]
             i == CHOOSE j \in 0 .. cmplen : Stop(j) /\ \A l \in 0 .. (j - 1) : ~Stop(l)
         IN  IF i < a.size
             THEN IF i < b.size THEN {<<lower(a.data[i + 1]) - b.data[i + 1], FALSE>>}
                  ELSE {<<1, FALSE>>}
             ELSE IF i < b.size THEN {<<-1, FALSE>>} ELSE {<<0, FALSE>>}

\* bufcasecmp(a, b); same says a == b, anull and bnull that a, b are NULL
bufcasecmp(same, anull, a, bnull, b) == CmpWith(same, anull, a, bnull, b, TRUE)

\* bufcmp(a, b)
bufcmp(same, anull, a, bnull, b) == CmpWith(same, anull, a, bnull, b, FALSE)

\* int: 16 bits, the least width the language allows
IntMod == 65536
IntMax == (IntMod \div 2) - 1
IntMin == -(IntMod \div 2)
InInt(x) == IntMin <= x /\ x <= IntMax
\* What an int operation gives when its result x is out of range: signed
\* overflow, here with the wrapped value
WrapInt(x) == ((x + (IntMod \div 2)) % IntMod) - (IntMod \div 2)

\* '0' .. '9'
IsDigit(c) == c >= 48 /\ c <= 57

\* The outcome of buftoi: the value returned, whether *offset_o was written
\* and with what, whether a byte at an index >= size was read (past) and
\* whether a byte outside the block was read or an int overflowed (ub).
ToiOut(val, wrote, end, past, ub) ==
    [val |-> val, wrote |-> wrote, end |-> end, past |-> past, ub |-> ub]

\* The loop of buftoi from index i on with r so far; ub: overflow so far
RECURSIVE ToiLoop(_, _, _, _)
ToiLoop(b, i, r, ub) ==
    IF ~(i < b.size) THEN {<<r, i, ub>>}
    ELSE UNION { IF ~IsDigit(x) THEN {<<r, i, ub \/ i >= Len(b.data)>>}
                 ELSE LET t1 == r * 10
                          t2 == WrapInt(t1) + x
                          t3 == WrapInt(t2) - 48
                      IN  ToiLoop(b, i + 1, WrapInt(t3),
                                  ub \/ i >= Len(b.data)
                                     \/ ~InInt(t1) \/ ~InInt(t2) \/ ~InInt(t3))
                 : x \in Rd(b.data, i + 1) }

\* buftoi(buf, offset_i, offset_o); bnull: buf is NULL, wantout: offset_o is
\* not NULL
buftoi(bnull, b, offset_i, wantout) ==
    IF bnull \/ b.size = 0 THEN {ToiOut(0, FALSE, 0, FALSE, FALSE)}
    ELSE UNION { LET neg == x = 45
                     i == IF x = 43 \/ x = 45 THEN offset_i + 1 ELSE offset_i
                 IN  { ToiOut(IF neg THEN WrapInt(-l[1]) ELSE l[1],
                              wantout, IF wantout THEN l[2] ELSE 0,
                              offset_i >= b.size,
                              l[3] \/ offset_i >= Len(b.data) \/ (neg /\ ~InInt(-l[1])))
                       : l \in ToiLoop(b, i, 0, FALSE) }
                 : x \in Rd(b.data, offset_i + 1) }

---------------------------------------------------------------------------
\* The heap as a whole: the part of the state bufdup and bufrelease change.

World == [mem |-> mem, st |-> st, frees |-> frees,
          nb |-> buffer_stat_nb, ab |-> buffer_stat_alloc_bytes]

\* bufrelease that frees the buffer whatever its reference count.
ReleaseUncounted(W, a) ==
    IF a = NullH \/ W.mem[a].unit = 0 THEN W
    ELSE [W EXCEPT !.mem[a] = NoBuf,
                   !.st[a] = "freed",
                   !.frees[a] = @ + 1,
                   !.nb = @ - 1,
                   !.ab = (@ - W.mem[a].asize) % SizeMod]

\* bufrelease(buf) for handle a
Release(W, a) ==
    IF a = NullH \/ W.mem[a].unit = 0 THEN W
    ELSE IF W.mem[a].ref - 1 = 0
         THEN [W EXCEPT !.mem[a] = NoBuf,
                        !.st[a] = "freed",
                        !.frees[a] = @ + 1,
                        !.nb = @ - 1,
                        !.ab = (@ - W.mem[a].asize) % SizeMod]
         ELSE [W EXCEPT !.mem[a].ref = @ - 1]

\* The record a becomes the struct buf b that bufnew or bufdup built.
Install(W, a, b) ==
    [W EXCEPT !.mem[a] = b, !.st[a] = "live", !.nb = @ + 1,
              !.ab = (@ + b.asize) % SizeMod]

SetWorld(W) ==
    /\ mem' = W.mem
    /\ st' = W.st
    /\ frees' = W.frees
    /\ buffer_stat_nb' = W.nb
    /\ buffer_stat_alloc_bytes' = W.ab

Last(op, a, rc) == [op |-> op, a |-> a, rc |-> rc]

\* The buffers the caller can pass: NULL, the two stack/static ones, and
\* every heap buffer it holds a pointer to.
Held(a) == a \in Heap /\ (own[a] \/ \E s \in Slots : slot[s] = a)
Args == {NullH, V, K} \cup {a \in Heap : Held(a)}

Running == fault = "none"

\* A call of a function that returns at once on a NULL buffer.
NullCall(op) ==
    /\ last' = Last(op, NullH, 0)
    /\ UNCHANGED <<mem, st, frees, own, slot, buffer_stat_nb,
                   buffer_stat_alloc_bytes, fault>>

\* A call on buffer a with one of the outcomes outs.
Apply(op, a, outs) ==
    \E o \in outs :
        /\ mem' = [mem EXCEPT ![a] = o.b]
        /\ buffer_stat_alloc_bytes' = (buffer_stat_alloc_bytes + o.add) % SizeMod
        /\ last' = Last(op, a, o.rc)
        /\ fault' = IF o.rc = HANG THEN "hang" ELSE IF o.ub THEN "ub" ELSE "none"
        /\ UNCHANGED <<st, frees, own, slot, buffer_stat_nb>>

---------------------------------------------------------------------------
\* Initial state: no heap buffer; K is CONST_BUF(K, "\1\2"); V is a
\* VOLATILE_BUF over a char array of MaxLen + 1 bytes holding the string str.

StrArray(str) == str \o [i \in 1 .. (MaxLen + 1 - Len(str)) |-> 0]

\* The initial state with V made over the char array arr
InitArr(arr) ==
    /\ mem = [a \in Handles |->
                 IF a = V THEN VOLATILE_BUF(arr, Strlen(arr))
                 ELSE IF a = K THEN CONST_BUF(<<1, 2>>)
                 ELSE NoBuf]
    /\ st = [a \in Handles |-> IF a \in Heap THEN "unused" ELSE "live"]
    /\ frees = [a \in Handles |-> 0]
    /\ own = [a \in Handles |-> FALSE]
    /\ slot = [s \in Slots |-> NullH]
    /\ buffer_stat_nb = 0
    /\ buffer_stat_alloc_bytes = 0
    /\ last = Last("init", NullH, 0)
    /\ fault = "none"

InitWith(str) == InitArr(StrArray(str))

\* V wraps the empty string.
Init == InitWith(<<>>)

\* V wraps the empty string or a string of two characters.
InitVol == \E str \in {<<>>, <<2, 1>>} : InitWith(str)

---------------------------------------------------------------------------
\* The calls

\* bufnew(unit)
BufNew(unit) ==
    /\ Running
    /\ \/ /\ last' = Last("bufnew", NullH, NullH)
          /\ UNCHANGED <<mem, st, frees, own, slot, buffer_stat_nb,
                         buffer_stat_alloc_bytes, fault>>
       \/ \E a \in FreshRec :
            /\ SetWorld(Install(World, a, Buf(<<>>, TRUE, 0, 0, unit, 1)))
            /\ own' = [own EXCEPT ![a] = TRUE]
            /\ last' = Last("bufnew", NullH, a)
            /\ UNCHANGED <<slot, fault>>

\* bufdup(src, dupunit)
BufDup(src, dupunit) ==
    /\ Running
    /\ src \in Args
    /\ \/ /\ last' = Last("bufdup", src, NullH)
          /\ UNCHANGED <<mem, st, frees, own, slot, buffer_stat_nb,
                         buffer_stat_alloc_bytes, fault>>
       \/ /\ src # NullH
          /\ \E a \in FreshRec : \E o \in bufdup(mem[src], dupunit) :
               /\ o.rc = 1
               /\ SetWorld(Install(World, a, o.b))
               /\ own' = [own EXCEPT ![a] = TRUE]
               /\ last' = Last("bufdup", src, a)
               /\ fault' = IF o.ub THEN "ub" ELSE "none"
               /\ UNCHANGED slot

\* bufgrow(buf, neosz)
BufGrow(a, neosz) ==
    /\ Running
    /\ a \in Args
    /\ \/ a = NullH /\ NullCall("bufgrow")
       \/ a # NullH /\ Apply("bufgrow", a, bufgrow(mem[a], neosz))

\* bufnullterm(buf)
BufNullTerm(a) ==
    /\ Running
    /\ a \in Args
    /\ \/ a = NullH /\ NullCall("bufnullterm")
       \/ a # NullH /\ Apply("bufnullterm", a, bufnullterm(mem[a]))

\* bufprintf(buf, fmt, ...)
BufPrintf(a, out, err) ==
    /\ Running
    /\ a \in Args
    /\ \/ a = NullH /\ NullCall("bufprintf")
       \/ a # NullH /\ Apply("bufprintf", a, bufprintf(mem[a], out, err))

\* vbufprintf(buf, fmt, ap)
VBufPrintf(a, out, err) ==
    /\ Running
    /\ a \in Args
    /\ \/ a = NullH /\ NullCall("vbufprintf")
       \/ a # NullH /\ Apply("vbufprintf", a, vbufprintf(mem[a], out, err))

\* bufput(buf, data, len)
BufPut(a, data) ==
    /\ Running
    /\ a \in Args
    /\ \/ a = NullH /\ NullCall("bufput")
       \/ a # NullH /\ Apply("bufput", a, bufput(mem[a], data))

\* bufputs(buf, str)
BufPuts(a, str) ==
    /\ Running
    /\ a \in Args
    /\ \/ a = NullH /\ NullCall("bufputs")
       \/ a # NullH /\ Apply("bufputs", a, bufputs(mem[a], str \o <<0>>))

\* bufputc(buf, c)
BufPutc(a, c) ==
    /\ Running
    /\ a \in Args
    /\ \/ a = NullH /\ NullCall("bufputc")
       \/ a # NullH /\ Apply("bufputc", a, bufputc(mem[a], c))

\* bufrelease(buf), by the caller that got buf from bufnew or bufdup and
\* has not released it yet (or on NULL, V or K).
BufRelease(a) ==
    /\ Running
    /\ a \in {NullH, V, K} \/ (a \in Heap /\ own[a])
    /\ SetWorld(Release(World, a))
    /\ own' = IF a \in Heap THEN [own EXCEPT ![a] = FALSE] ELSE own
    /\ last' = Last("bufrelease", a, 0)
    /\ UNCHANGED <<slot, fault>>

\* bufreset(buf)
BufReset(a) ==
    /\ Running
    /\ a \in Args
    /\ \/ a = NullH /\ NullCall("bufreset")
       \/ a # NullH /\ Apply("bufreset", a, bufreset(mem[a]))

\* bufset that releases the old value before it counts the new reference.
BufSetReleaseFirst(s, src) ==
    /\ Running
    /\ src \in Args
    /\ src = K => mem[K].ref < MaxRef
    /\ LET W1 == Release(World, slot[s])
           W2 == IF src = NullH THEN W1 ELSE [W1 EXCEPT !.mem[src].ref = @ + 1]
       IN  SetWorld(W2)
    /\ slot' = [slot EXCEPT ![s] = src]
    /\ last' = Last("bufset", src, src)
    /\ UNCHANGED <<own, fault>>

\* bufset that never duplicates: src->ref += 1 for a volatile buffer too.
BufSetNoDup(s, src) ==
    /\ Running
    /\ src \in Args
    /\ src = K => mem[K].ref < MaxRef
    /\ src = V => mem[V].ref < MaxRef
    /\ \/ /\ src = NullH
          /\ SetWorld(Release(World, slot[s]))
          /\ slot' = [slot EXCEPT ![s] = NullH]
          /\ last' = Last("bufset", src, NullH)
          /\ UNCHANGED <<own, fault>>
       \/ /\ src # NullH
          /\ SetWorld(Release([World EXCEPT !.mem[src].ref = @ + 1], slot[s]))
          /\ slot' = [slot EXCEPT ![s] = src]
          /\ last' = Last("bufset", src, src)
          /\ UNCHANGED <<own, fault>>

\* bufset(&slot[s], src)
BufSet(s, src) ==
    /\ Running
    /\ src \in Args
    /\ src = K => mem[K].ref < MaxRef
    /\ \/ \* src is NULL
          /\ src = NullH
          /\ SetWorld(Release(World, slot[s]))
          /\ slot' = [slot EXCEPT ![s] = NullH]
          /\ last' = Last("bufset", src, NullH)
          /\ UNCHANGED <<own, fault>>
       \/ \* src is volatile and bufdup returns NULL
          /\ src # NullH /\ ~mem[src].dnull /\ mem[src].asize = 0
          /\ SetWorld(Release(World, slot[s]))
          /\ slot' = [slot EXCEPT ![s] = NullH]
          /\ last' = Last("bufset", src, NullH)
          /\ UNCHANGED <<own, fault>>
       \/ \* src is volatile and bufdup succeeds
          /\ src # NullH /\ ~mem[src].dnull /\ mem[src].asize = 0
          /\ \E a \in FreshRec : \E o \in bufdup(mem[src], 1) :
               /\ o.rc = 1
               /\ SetWorld(Release(Install(World, a, o.b), slot[s]))
               /\ slot' = [slot EXCEPT ![s] = a]
               /\ last' = Last("bufset", src, a)
               /\ fault' = IF o.ub THEN "ub" ELSE "none"
               /\ UNCHANGED own
       \/ \* src->ref += 1
          /\ src # NullH /\ ~(~mem[src].dnull /\ mem[src].asize = 0)
          /\ SetWorld(Release([World EXCEPT !.mem[src].ref = @ + 1], slot[s]))
          /\ slot' = [slot EXCEPT ![s] = src]
          /\ last' = Last("bufset", src, src)
          /\ UNCHANGED <<own, fault>>

\* bufslurp(buf, len)
BufSlurp(a, len) ==
    /\ Running
    /\ a \in Args
    /\ \/ a = NullH /\ NullCall("bufslurp")
       \/ a # NullH /\ Apply("bufslurp", a, bufslurp(mem[a], len))

\* bufcmps(a, b); bnull: b is NULL
BufCmps(a, bnull, str) ==
    /\ Running
    /\ a \in Args
    /\ \E r \in bufcmps(a = NullH, IF a = NullH THEN NoBuf ELSE mem[a], bnull, str) :
         /\ last' = Last("bufcmps", a, r[1])
         /\ fault' = IF r[2] THEN "ub" ELSE "none"
    /\ UNCHANGED <<mem, st, frees, own, slot, buffer_stat_nb, buffer_stat_alloc_bytes>>

\* The struct buf handle a points to (none for NULL)
Deref(a) == IF a = NullH THEN NoBuf ELSE mem[a]

\* A call of a comparison of buffers a and b with the outcomes outs
Compare(op, a, outs) ==
    /\ \E r \in outs :
         /\ last' = Last(op, a, r[1])
         /\ fault' = IF r[2] THEN "ub" ELSE "none"
    /\ UNCHANGED <<mem, st, frees, own, slot, buffer_stat_nb, buffer_stat_alloc_bytes>>

\* bufcmp(a, b)
BufCmp(a, b) ==
    /\ Running
    /\ a \in Args /\ b \in Args
    /\ Compare("bufcmp", a, bufcmp(a = b, a = NullH, Deref(a), b = NullH, Deref(b)))

\* bufcasecmp(a, b)
BufCaseCmp(a, b) ==
    /\ Running
    /\ a \in Args /\ b \in Args
    /\ Compare("bufcasecmp", a, bufcasecmp(a = b, a = NullH, Deref(a), b = NullH, Deref(b)))

\* buftoi(a, offset_i, offset_o)
BufToi(a, offset_i, wantout) ==
    /\ Running
    /\ a \in Args
    /\ \E o \in buftoi(a = NullH, Deref(a), offset_i, wantout) :
         /\ last' = Last("buftoi", a, [val |-> o.val, wrote |-> o.wrote,
                                        end |-> o.end, past |-> o.past])
         /\ fault' = IF o.ub THEN "ub" ELSE "none"
    /\ UNCHANGED <<mem, st, frees, own, slot, buffer_stat_nb, buffer_stat_alloc_bytes>>

\* The owner of the char array V was made from stores another string in it
\* (strcpy(strname, str)); V itself is not touched.
StackWrite(str) ==
    /\ Running
    /\ mem' = [mem EXCEPT ![V].data = WriteAt(@, 0, str \o <<0>>)]
    /\ last' = Last("strcpy", V, 0)
    /\ UNCHANGED <<st, frees, own, slot, buffer_stat_nb, buffer_stat_alloc_bytes, fault>>

---------------------------------------------------------------------------
\* Inputs

\* The data passed to bufput: no byte, one byte, two bytes, with and
\* without a zero byte.
PutData == {<<>>, <<0>>, <<1>>, <<2>>, <<1, 2>>, <<2, 0>>}
SlurpLens == 0 .. (MaxLen + 1)

\* The strings passed to bufputs, and what the caller's formats produce.
Outputs == {<<>>, <<1>>, <<2, 1>>}

\* The sizes bufgrow is asked for: the small ones and the largest size_t.
GrowTargets == (0 .. (MaxAlloc + 1)) \cup {SizeMod - 2, SizeMod - 1}

\* The sources of a duplicate: NULL, V or K.
DupArgs == {NullH, V, K}

\* No heap buffer is live: the program builds and uses one buffer at a time.
NoneLive == \A a \in Heap : st[a] # "live"

\* One buffer at a time, made by bufnew or by bufdup of V or K, changed by
\* every mutating function and released.
Next ==
    \/ \E u \in Units : NoneLive /\ BufNew(u)
    \/ \E a \in DupArgs, u \in Units : NoneLive /\ BufDup(a, u)
    \/ \E a \in Heap, n \in GrowTargets : BufGrow(a, n)
    \/ \E a \in Heap : BufNullTerm(a)
    \/ \E a \in Heap, out \in Outputs, err \in BOOLEAN : BufPrintf(a, out, err)
    \/ \E a \in Heap, out \in Outputs, err \in BOOLEAN : VBufPrintf(a, out, err)
    \/ \E a \in Handles, d \in PutData : BufPut(a, d)
    \/ \E a \in Heap, str \in Outputs : BufPuts(a, str)
    \/ \E a \in Heap, c \in Byte : BufPutc(a, c)
    \/ \E a \in Heap : BufRelease(a)
    \/ \E a \in Heap : BufReset(a)
    \/ \E a \in Heap, n \in SlurpLens : BufSlurp(a, n)

Spec == Init /\ [][Next]_vars

\* Heap buffers shared through bufset: made by bufnew and bufdup, stored
\* into the slots (V too, which bufset duplicates), grown, reset, and
\* released once by every holder.
ShareUnits == {1, 2}
ShareArgs == Heap \cup {NullH, V}

NextShare ==
    \/ \E u \in ShareUnits : BufNew(u)
    \/ \E a \in ShareArgs, u \in ShareUnits : BufDup(a, u)
    \/ \E s \in Slots, a \in ShareArgs : BufSet(s, a)
    \/ \E a \in ShareArgs : BufRelease(a)
    \/ \E a \in Heap : BufPutc(a, 1)
    \/ \E a \in Heap : BufReset(a)

SpecShare == Init /\ [][NextShare]_vars

\* The volatile and the constant buffer: every function called on NULL, V
\* and K, V and K stored into the slots, and the array V wraps overwritten
\* by its owner.
RoArgs == {NullH, V, K}

NextRo ==
    \/ \E s \in Slots, a \in RoArgs : BufSet(s, a)
    \/ \E a \in RoArgs : BufRelease(a)
    \/ \E a \in RoArgs, n \in {1, SizeMod - 1} : BufGrow(a, n)
    \/ \E a \in RoArgs : BufNullTerm(a)
    \/ \E a \in RoArgs : BufPrintf(a, <<1>>, FALSE)
    \/ \E a \in RoArgs : BufPut(a, <<1, 2>>)
    \/ \E a \in RoArgs : BufPuts(a, <<1>>)
    \/ \E a \in RoArgs : BufPutc(a, 1)
    \/ \E a \in RoArgs : BufReset(a)
    \/ \E a \in RoArgs, n \in {1, MaxLen + 1} : BufSlurp(a, n)
    \/ \E str \in {<<>>, <<1, 2>>} : StackWrite(str)

SpecRo == InitVol /\ [][NextRo]_vars

---------------------------------------------------------------------------
\* Properties of one buffer's life (specification Spec)

LiveHeap == {a \in Heap : st[a] = "live"}

\* The smallest multiple of unit that is >= n
RoundUp(n, unit) == ((n + unit - 1) \div unit) * unit

\* C1: every live heap buffer with a growth unit (made by bufnew or bufdup)
\* has size <= asize in every reachable state.
C1_SizeWithinCapacity ==
    \A a \in LiveHeap : mem[a].unit > 0 => mem[a].size <= mem[a].asize

\* C3: every bufgrow(b, n) step on a buffer with a growth unit, for every
\* n of the size type, returns: either 1, with asize >= n, asize not lowered
\* and size, contents, unit and ref kept, or 0 with the struct buf exactly
\* as before.
C3_GrowPost ==
    [][last'.op = "bufgrow" => \A a \in Heap \cap {last'.a}, n \in GrowTargets :
          (mem[a].unit > 0 /\ BufGrow(a, n)) =>
              /\ last'.rc \in {0, 1}
              /\ mem'[a].asize >= mem[a].asize
              /\ last'.rc = 1 =>
                    /\ mem'[a].asize >= n
                    /\ mem'[a].size = mem[a].size
                    /\ Contents(mem'[a]) = Contents(mem[a])
                    /\ mem'[a].unit = mem[a].unit
                    /\ mem'[a].ref = mem[a].ref
              /\ last'.rc = 0 => mem'[a] = mem[a]]_vars

\* What does hold of bufgrow: the same, but for the calls whose loop
\* "while (neoasz < neosz) neoasz += buf->unit" wraps around for ever; these
\* never return and leave the struct buf as it was.
GrowPostIfReturns ==
    [][last'.op = "bufgrow" => \A a \in Heap \cap {last'.a}, n \in GrowTargets :
          (mem[a].unit > 0 /\ BufGrow(a, n)) =>
              /\ mem'[a].asize >= mem[a].asize
              /\ last'.rc = 1 =>
                    /\ mem'[a].asize >= n
                    /\ mem'[a].size = mem[a].size
                    /\ Contents(mem'[a]) = Contents(mem[a])
                    /\ mem'[a].unit = mem[a].unit
                    /\ mem'[a].ref = mem[a].ref
              /\ last'.rc # 1 => mem'[a] = mem[a]
              /\ last'.rc \notin {0, 1} => fault' = "hang"]_vars

\* A bufgrow that had to reallocate a non-empty buffer succeeded.
GrowWitness ==
    /\ last.op = "bufgrow" /\ last.rc = 1 /\ last.a \in Heap
    /\ mem[last.a].size > 0
    /\ mem[last.a].asize > mem[last.a].size
    /\ \A i \in (mem[last.a].size + 1) .. mem[last.a].asize : mem[last.a].data[i] = Indet

\* C4: a bufput(b, d, n) step on a non-null buffer: when the growth
\* succeeded, size grows by exactly n, the last n bytes are d and the bytes
\* before them are the old contents; when it failed, the buffer is unchanged.
C4_PutPost ==
    [][last'.op = "bufput" => \A a \in Handles \cap {last'.a}, d \in PutData :
          BufPut(a, d) =>
              /\ last'.rc = 1 =>
                    /\ mem'[a].size = mem[a].size + Len(d)
                    /\ Contents(mem'[a]) = Contents(mem[a]) \o d
              /\ last'.rc # 1 => mem'[a] = mem[a]
              /\ (mem[a].unit = 0 \/ mem[a].asize < mem[a].size + Len(d))
                    \/ last'.rc = 1]_vars

\* C4 witness: two bytes were appended to a buffer that held one.
C4_Witness ==
    /\ last.op = "bufput" /\ last.rc = 1 /\ last.a \in Heap
    /\ mem[last.a].size = 3

\* C7: asize is a multiple of the growth unit in every state, and asize
\* gets smaller only by bufreset, which makes it 0 (or by the release that
\* frees the buffer).
C7_CapacityMultiple ==
    [][/\ \A a \in Heap : (st'[a] = "live" /\ mem'[a].unit > 0) =>
             mem'[a].asize % mem'[a].unit = 0
       /\ \A a \in Heap : (st[a] = "live" /\ st'[a] = "live"
                             /\ mem'[a].asize < mem[a].asize) =>
             (last'.op = "bufreset" /\ last'.a = a /\ mem'[a].asize = 0)]_vars

\* C7 witness: a buffer with growth unit 2 holds one byte in a block of two.
C7_Witness ==
    \E a \in LiveHeap : mem[a].unit = 2 /\ mem[a].asize = 2 /\ mem[a].size = 1
                        /\ last.op = "bufputc"

\* C8: after bufdup(source, unit) returns a buffer, it has ref 1, the
\* source's size and bytes, asize the smallest multiple of unit >= size
\* (0 and a NULL data pointer when size is 0), and the source is as before.
C8_DupResult ==
    (last.op = "bufdup" /\ last.rc # NullH) =>
        /\ mem[last.rc].ref = 1
        /\ mem[last.rc].size = mem[last.a].size
        /\ Contents(mem[last.rc]) = Contents(mem[last.a])
        /\ mem[last.rc].asize = RoundUp(mem[last.a].size, mem[last.rc].unit)
        /\ mem[last.a].size = 0 => (mem[last.rc].asize = 0 /\ mem[last.rc].dnull)

---------------------------------------------------------------------------
\* Properties of sharing (specification SpecShare)

\* The holders of heap buffer a: the caller that got it from bufnew or
\* bufdup and has not released it, and every slot it is stored in.
Holders(a) == (IF own[a] THEN 1 ELSE 0) + Cardinality({s \in Slots : slot[s] = a})

\* C2: a heap buffer's ref is the number of its holders and is never
\* negative; the buffer is freed exactly once, when its last holder has
\* released it, and never while a holder remains.
C2_RefCountsHolders ==
    \A a \in Heap :
        /\ mem[a].ref >= 0
        /\ st[a] = "live" => (mem[a].ref = Holders(a) /\ Holders(a) >= 1 /\ frees[a] = 0)
        /\ st[a] = "freed" => (Holders(a) = 0 /\ frees[a] = 1)
        /\ st[a] = "unused" => (Holders(a) = 0 /\ frees[a] = 0)

\* C2 witness: one buffer has been freed by a bufset that replaced the last
\* pointer to it, while another is held by its maker and both slots.
C2_Witness ==
    /\ last.op = "bufset"
    /\ \E a \in Heap : st[a] = "freed" /\ frees[a] = 1
    /\ \E a \in Heap : st[a] = "live" /\ mem[a].ref = MaxSlots + 1

---------------------------------------------------------------------------
\* Properties of the volatile and the constant buffer (specification SpecRo)

Volatile(b) == ~b.dnull /\ b.asize = 0

\* C5: a bufset of a volatile buffer v whose allocations succeed stores in
\* the slot a new heap buffer, not v, with unit 1, ref 1, v's size, asize
\* >= that size and v's bytes, and leaves v as it was; a later change of the
\* array v wraps changes no heap buffer and no field of v.
C5_AssignVolatile ==
    [][/\ (last'.op = "bufset" /\ last'.a # NullH /\ last'.rc # NullH
            /\ Volatile(mem[last'.a])) =>
             /\ last'.rc \in Heap
             /\ st[last'.rc] = "unused" /\ st'[last'.rc] = "live"
             /\ \E s \in Slots : slot'[s] = last'.rc /\ slot[s] # last'.rc
             /\ mem'[last'.rc].unit = 1
             /\ mem'[last'.rc].ref = 1
             /\ mem'[last'.rc].size = mem[last'.a].size
             /\ mem'[last'.rc].asize >= mem[last'.a].size
             /\ Contents(mem'[last'.rc]) = Contents(mem[last'.a])
             /\ mem'[last'.a] = mem[last'.a]
       /\ last'.op = "strcpy" =>
             /\ \A a \in Heap \cup {K} : mem'[a] = mem[a]
             /\ mem'[V] = [mem[V] EXCEPT !.data = mem'[V].data]]_vars

\* C5 witness: a slot holds the copy bufset made of V's two characters, and
\* the array V wraps has since been overwritten.
C5_Witness ==
    /\ last.op = "strcpy"
    /\ Contents(mem[V]) # <<2, 1>>
    /\ \E s \in Slots : /\ slot[s] \in Heap
                        /\ Contents(mem[slot[s]]) = <<2, 1>>
                        /\ mem[slot[s]].unit = 1

ReadOnlyOps == {"bufgrow", "bufput", "bufputs", "bufputc", "bufslurp",
                "bufnullterm", "bufreset", "bufrelease"}

\* C6: on a buffer with unit 0 (V and K), bufgrow, bufput, bufputs, bufputc,
\* bufslurp, bufnullterm, bufreset and bufrelease change nothing, and
\* bufgrow returns 0.
C6_ReadOnlyUntouched ==
    [][(last'.op \in ReadOnlyOps /\ last'.a \in {V, K}) =>
            /\ mem[last'.a].unit = 0
            /\ mem' = mem
            /\ st' = st
            /\ last'.op = "bufgrow" => last'.rc = 0]_vars

\* C6 witness: bufslurp was called on V while it wrapped two characters.
C6_Witness ==
    last.op = "bufslurp" /\ last.a = V /\ mem[V].size = 2 /\ mem[V].unit = 0

---------------------------------------------------------------------------
\* Comparison with a string (specification SpecCmp): one heap buffer is
\* filled, shortened from the front and compared with C strings.

CmpUnits == {1, 2}
CmpArgs == Heap \cup {NullH, K}

NextCmp ==
    \/ \E unit \in CmpUnits : NoneLive /\ BufNew(unit)
    \/ \E a \in Heap, d \in PutData : BufPut(a, d)
    \/ \E a \in Heap, n \in 1 .. MaxLen : BufSlurp(a, n)
    \/ \E a \in CmpArgs, bnull \in BOOLEAN, str \in CStrs : BufCmps(a, bnull, str)
    \/ \E a \in Heap : BufRelease(a)

SpecCmp == Init /\ [][NextCmp]_vars

\* The sign the comparison of the bytes c with the string s should have: that
\* of the first differing byte within Min(Len(c), Len(s)) bytes, else that
\* of Len(c) - Len(s).
RECURSIVE FirstDiff(_, _, _)
FirstDiff(c, s, i) ==
    IF i > Min(Len(c), Len(s)) THEN Sign(Len(c) - Len(s))
    ELSE IF c[i] # s[i] THEN Sign(c[i] - s[i])
    ELSE FirstDiff(c, s, i + 1)

\* C9: bufcmps of a NULL or empty buffer with s returns 0 only when s is
\* NULL, and a negative result for every non-NULL s.
C9_CmpsEmptyBuffer ==
    [][last'.op = "bufcmps" =>
         \A a \in CmpArgs \cap {last'.a}, bnull \in BOOLEAN, str \in CStrs :
            (BufCmps(a, bnull, str) /\ (a = NullH \/ mem[a].size = 0)) =>
                /\ last'.rc = 0 => bnull
                /\ ~bnull => last'.rc < 0]_vars

\* C10: the sign of bufcmps of a non-empty buffer with a string s is fixed
\* by the buffer's first size bytes and s alone: the sign of the first
\* differing byte within the shorter length, else that of size - strlen(s).
C10_CmpsSign ==
    [][last'.op = "bufcmps" =>
         \A a \in CmpArgs \cap {last'.a}, str \in CStrs :
            (a # NullH /\ mem[a].size > 0 /\ BufCmps(a, FALSE, str)) =>
                Sign(last'.rc) = FirstDiff(Contents(mem[a]), str, 1)]_vars

---------------------------------------------------------------------------
\* Removing a prefix in two steps or in one (specification Spec)

\* The struct buf after bufslurp(b, len)
Slurped(b, len) == (CHOOSE o \in bufslurp(b, len) : TRUE).b

\* C11: for every heap buffer b with a growth unit and all k, k2 >= 1 with
\* k + k2 <= size, bufslurp(b, k) then bufslurp(b, k2) gives the size and
\* contents of bufslurp(b, k + k2): the old bytes from index k + k2 on;
\* bufslurp(b, n) with n >= size gives size 0; asize is kept in all cases.
C11_SlurpComposes ==
    \A a \in LiveHeap : mem[a].unit > 0 =>
        LET b == mem[a] IN
        /\ \A k \in 1 .. b.size, k2 \in 1 .. b.size :
              k + k2 <= b.size =>
                 LET two == Slurped(Slurped(b, k), k2)
                     one == Slurped(b, k + k2)
                 IN  /\ Cardinality(bufslurp(b, k)) = 1
                     /\ two.size = one.size
                     /\ Contents(two) = Contents(one)
                     /\ one.size = b.size - (k + k2)
                     /\ Contents(one) = SubSeq(Contents(b), k + k2 + 1, b.size)
                     /\ two.asize = b.asize /\ one.asize = b.asize
        /\ \A n \in b.size .. (b.size + 1) :
              n >= 1 => /\ Slurped(b, n).size = 0
                        /\ Slurped(b, n).asize = b.asize

\* C11 witness: a bufslurp has removed the first of three bytes, and the two
\* bytes left differ, so that a second bufslurp of one byte is within bounds.
C11_Witness ==
    /\ last.op = "bufslurp" /\ last.rc = 1 /\ last.a \in LiveHeap
    /\ mem[last.a].size = 2 /\ mem[last.a].asize = 3
    /\ mem[last.a].data[1] # mem[last.a].data[2]

---------------------------------------------------------------------------
\* Comparison of two buffers (specification SpecCase): one heap buffer is
\* filled with letters and compared with itself, with NULL and with V, which
\* wraps a char array holding "Ab" at first and other strings later.

\* 'A', 'a', 'b'
CaseData == {<<65>>, <<97>>, <<98>>}
CaseStrs == {<<65, 98>>, <<97, 98>>, <<97, 65>>}
CaseArgs == Heap \cup {NullH, V}

InitCase == InitWith(<<65, 98>>)

NextCase ==
    \/ NoneLive /\ BufNew(1)
    \/ \E a \in Heap, d \in CaseData : BufPut(a, d)
    \/ \E str \in CaseStrs : StackWrite(str)
    \/ \E a \in CaseArgs, b \in CaseArgs : BufCmp(a, b)
    \/ \E a \in CaseArgs, b \in CaseArgs : BufCaseCmp(a, b)
    \/ \E a \in Heap : BufRelease(a)

SpecCase == InitCase /\ [][NextCase]_vars

\* C12: whenever bufcmp(a, b) returns 0, a or b possibly NULL, bufcasecmp(a, b)
\* returns 0 on the same buffers.
C12_CmpImpliesCaseCmp ==
    [][last'.op = "bufcmp" =>
         \A a \in CaseArgs \cap {last'.a}, b \in CaseArgs :
            (BufCmp(a, b) /\ last'.rc = 0) =>
                \A r \in bufcasecmp(a = b, a = NullH, Deref(a), b = NullH, Deref(b)) :
                    r[1] = 0]_vars

\* C12 witness: bufcmp has returned 0 for the heap buffer, and V is another
\* buffer with the same two bytes, an upper-case letter among them.
C12_Witness ==
    /\ last.op = "bufcmp" /\ last.rc = 0 /\ last.a \in LiveHeap
    /\ Contents(mem[last.a]) = <<65, 98>>
    /\ Contents(mem[V]) = <<65, 98>>

---------------------------------------------------------------------------
\* Reading a number (specification SpecToi): V wraps one of a few strings,
\* a heap buffer is filled with signs, digits and a letter, and buftoi is
\* called on both from every offset up to one past the size.

\* "-42abc", "32767", "+7", "-", "a1", ""
ToiStrs == {<<45, 52, 50, 97, 98, 99>>, <<51, 50, 55, 54, 55>>, <<43, 55>>,
            <<45>>, <<97, 49>>, <<>>}
\* '-', '4', '9', 'a'
ToiData == {<<45>>, <<52>>, <<57>>, <<97>>}
ToiArgs == Heap \cup {NullH, V}
ToiOffsets(a) == 0 .. (IF a = NullH THEN 0 ELSE mem[a].size + 1)

InitToi == \E str \in ToiStrs : InitArr(str \o <<0>>)

NextToi ==
    \/ NoneLive /\ BufNew(1)
    \/ \E a \in Heap, d \in ToiData : BufPut(a, d)
    \/ \E a \in ToiArgs : \E off \in ToiOffsets(a), w \in BOOLEAN : BufToi(a, off, w)
    \/ \E a \in Heap : BufRelease(a)

SpecToi == InitToi /\ [][NextToi]_vars

\* The index (from 0) at which the run of digits of c starting at i ends
RECURSIVE DigitsEnd(_, _)
DigitsEnd(c, i) == IF i < Len(c) /\ IsDigit(c[i + 1]) THEN DigitsEnd(c, i + 1) ELSE i

\* The decimal value of the digits of c at the indices i .. j - 1 (from 0)
RECURSIVE Decimal(_, _, _)
Decimal(c, i, j) == IF j <= i THEN 0 ELSE Decimal(c, i, j - 1) * 10 + (c[j] - 48)

\* The value and end offset the bytes c give from offset off < Len(c)
SignedRun(c, off) ==
    LET s == IF c[off + 1] \in {43, 45} THEN off + 1 ELSE off
        e == DigitsEnd(c, s)
    IN  [val |-> IF c[off + 1] = 45 THEN -Decimal(c, s, e) ELSE Decimal(c, s, e),
         end |-> e]

ToiValueIfNoOverflow ==
    [][(last'.op = "buftoi" /\ fault' = "none") =>
         \A a \in ToiArgs \cap {last'.a} : a # NullH =>
           \A off \in ToiOffsets(a), w \in BOOLEAN :
             (mem[a].size > 0 /\ off < mem[a].size /\ BufToi(a, off, w)) =>
                 /\ last'.rc.val = SignedRun(Contents(mem[a]), off).val
                 /\ w => (last'.rc.wrote /\ last'.rc.end = SignedRun(Contents(mem[a]), off).end)]_vars

\* buftoi has returned -42 and end offset 3 for "-42abc" from offset 0.
ToiScenario ==
    /\ last.op = "buftoi" /\ last.a = V /\ fault = "none"
    /\ Contents(mem[V]) = <<45, 52, 50, 97, 98, 99>>
    /\ last.rc.val = -42 /\ last.rc.wrote /\ last.rc.end = 3

\* C15: buftoi on a non-empty buffer, from any offset, reads no byte at an
\* index >= size.
C15_ToiReadsBelowSize ==
    [][last'.op = "buftoi" =>
         \A a \in ToiArgs \cap {last'.a} : (a # NullH /\ mem[a].size > 0) =>
             ~last'.rc.past]_vars

---------------------------------------------------------------------------
\* The growth policy (specification Spec)

\* neo is the smallest old + j * unit with j >= 1 that is >= n
SmallestStep(old, unit, n, neo) ==
    \E j \in 1 .. SizeMod :
        /\ neo = old + j * unit
        /\ neo >= n
        /\ old + (j - 1) * unit < n
        /\ neo - n < unit

\* C14: a bufgrow(b, n) that succeeds with asize < n, called directly or by
\* bufput for n = size + len, sets asize to the smallest asize + j * unit
\* (j >= 1) that is >= n, which exceeds n by less than unit; so a bufput of
\* len bytes into an empty buffer with len <= unit gives size len and asize
\* unit.
C14_GrowthPolicy ==
    [][/\ (last'.op = "bufgrow" /\ last'.rc = 1) =>
            \A a \in Heap \cap {last'.a}, n \in GrowTargets :
               (BufGrow(a, n) /\ mem[a].asize < n) =>
                   SmallestStep(mem[a].asize, mem[a].unit, n, mem'[a].asize)
       /\ (last'.op = "bufput" /\ last'.rc = 1) =>
            \A a \in Heap \cap {last'.a}, d \in PutData :
               (BufPut(a, d) /\ mem[a].asize < mem[a].size + Len(d)) =>
                   /\ SmallestStep(mem[a].asize, mem[a].unit,
                                   mem[a].size + Len(d), mem'[a].asize)
                   /\ (mem[a].asize = 0 /\ Len(d) <= mem[a].unit) =>
                         (mem'[a].size = Len(d) /\ mem'[a].asize = mem[a].unit)]_vars

\* C14 witness: a bufput has grown a buffer of unit 1 that held one byte in
\* one byte of storage by two units at once, to size 3 and asize 3.
C14_Witness ==
    /\ last.op = "bufput" /\ last.rc = 1 /\ last.a \in LiveHeap
    /\ mem[last.a].unit = 1
    /\ mem[last.a].size = 3 /\ mem[last.a].asize = 3
    /\ Contents(mem[last.a]) = <<0, 1, 2>>

---------------------------------------------------------------------------
\* bufset when bufdup fails (specification SpecRo)

\* C16: when the bufdup of a volatile source fails inside bufset(slot, v),
\* the slot still points to the buffer it held before, and that buffer is
\* neither released nor freed: its ref is as before.
C16_AssignDupFails ==
    [][(last'.op = "bufset" /\ last'.a # NullH /\ last'.rc = NullH) =>
         \A s \in Slots :
            (Volatile(mem[last'.a]) /\ BufSet(s, last'.a)) =>
                /\ slot'[s] = slot[s]
                /\ st' = st
                /\ slot[s] # NullH => mem'[slot[s]].ref = mem[slot[s]].ref]_vars

---------------------------------------------------------------------------
\* Formatted output (specification Spec)

PrintfOps == {"bufprintf", "vbufprintf"}

\* C17: bufprintf and vbufprintf on a heap buffer with a growth unit, for a
\* format whose output has a length L >= 0: when the growths succeed, size
\* grows by exactly L, the bytes before the old size are kept and size <
\* asize afterwards; when a growth fails, at the first or the second
\* attempt, size, asize and the first size bytes are as before.
C17_PrintfPost ==
    [][last'.op \in PrintfOps =>
         \A a \in Heap \cap {last'.a}, out \in Outputs :
            (mem[a].unit > 0 /\ (BufPrintf(a, out, FALSE) \/ VBufPrintf(a, out, FALSE))) =>
                /\ last'.rc = 1 =>
                      /\ mem'[a].size = mem[a].size + Len(out)
                      /\ Take(Contents(mem'[a]), mem[a].size) = Contents(mem[a])
                      /\ mem'[a].size < mem'[a].asize
                /\ last'.rc # 1 =>
                      /\ mem'[a].size = mem[a].size
                      /\ mem'[a].asize = mem[a].asize
                      /\ Contents(mem'[a]) = Contents(mem[a])]_vars

\* What does hold of them: the same, but that a failed call may leave asize
\* larger than it was (the first growth is kept when the second fails); and
\* the bytes appended are the output.
PrintfPostGrown ==
    [][last'.op \in PrintfOps =>
         \A a \in Heap \cap {last'.a}, out \in Outputs :
            (mem[a].unit > 0 /\ (BufPrintf(a, out, FALSE) \/ VBufPrintf(a, out, FALSE))) =>
                /\ last'.rc = 1 =>
                      /\ mem'[a].size = mem[a].size + Len(out)
                      /\ Contents(mem'[a]) = Contents(mem[a]) \o out
                      /\ mem'[a].size < mem'[a].asize
                /\ last'.rc # 1 =>
                      /\ mem'[a].size = mem[a].size
                      /\ mem'[a].asize >= mem[a].asize
                      /\ Contents(mem'[a]) = Contents(mem[a])]_vars

---------------------------------------------------------------------------
\* The terminator (specification Spec)

\* C18: bufnullterm on a heap buffer with a growth unit: when the growth
\* succeeds (or none is needed), size and the first size bytes are kept,
\* asize > size and data[size] is 0; when it fails the struct buf is as
\* before; and a bufput that follows stores its bytes from index size on,
\* over the terminator, which is never counted in size.
C18_NullTermPost ==
    [][last'.op = "bufnullterm" =>
         \A a \in Heap \cap {last'.a} :
            (mem[a].unit > 0 /\ BufNullTerm(a)) =>
                /\ last'.rc = 1 =>
                      /\ mem'[a].size = mem[a].size
                      /\ Contents(mem'[a]) = Contents(mem[a])
                      /\ mem'[a].asize > mem'[a].size
                      /\ mem'[a].data[mem'[a].size + 1] = 0
                      /\ \A d \in PutData : \A o \in bufput(mem'[a], d) :
                            o.rc = 1 =>
                               /\ o.b.size = mem[a].size + Len(d)
                               /\ Contents(o.b) = Contents(mem[a]) \o d
                /\ last'.rc # 1 => mem'[a] = mem[a]]_vars

\* C18 witness: bufnullterm had to grow a full buffer of two bytes by one
\* unit to store the terminator after them.
C18_Witness ==
    /\ last.op = "bufnullterm" /\ last.rc = 1 /\ last.a \in LiveHeap
    /\ mem[last.a].unit = 1
    /\ mem[last.a].size = 2 /\ mem[last.a].asize = 3
    /\ Contents(mem[last.a]) = <<1, 2>>
    /\ mem[last.a].data[3] = 0

---------------------------------------------------------------------------
\* Self-assignment (specification SpecShare)

\* C19: bufset(slot, b) for a heap buffer b that the slot already holds
\* leaves b live and not freed, the slot pointing to b, and b's ref and
\* other fields as they were.
C19_SelfAssign ==
    [][(last'.op = "bufset" /\ last'.a \in Heap) =>
         \A s \in Slots :
            (slot[s] = last'.a /\ mem[last'.a].ref >= 1 /\ BufSet(s, last'.a)) =>
                /\ st'[last'.a] = "live"
                /\ frees'[last'.a] = 0
                /\ slot'[s] = last'.a
                /\ mem'[last'.a].ref = mem[last'.a].ref
                /\ mem'[last'.a] = mem[last'.a]]_vars

\* C19 witness: a bufset has just assigned to a slot the buffer it held,
\* whose only reference was that slot's.
C19_Witness ==
    /\ last.op = "bufset" /\ last.a \in LiveHeap /\ last.rc = last.a
    /\ ~own[last.a]
    /\ mem[last.a].ref = 1
    /\ Cardinality({s \in Slots : slot[s] = last.a}) = 1

---------------------------------------------------------------------------
\* Usage statistics (specification SpecStats): the calls of SpecShare, and
\* bufgrow and bufput on the heap buffers.

StatTargets == {2, SizeMod - 1}

NextStats ==
    \/ NextShare
    \/ \E a \in Heap, n \in StatTargets : BufGrow(a, n)
    \/ \E a \in Heap : BufPut(a, <<1, 2>>)

SpecStats == Init /\ [][NextStats]_vars

\* The sum of asize over the heap buffers in S
RECURSIVE SumAsize(_)
SumAsize(S) ==
    IF S = {} THEN 0
    ELSE LET a == CHOOSE x \in S : TRUE IN mem[a].asize + SumAsize(S \ {a})

\* C20: buffer_stat_nb is the number of live heap buffer records, and
\* buffer_stat_alloc_bytes the sum of asize over them, in every reachable
\* state.
C20_StatsMatch ==
    /\ buffer_stat_nb = Cardinality(LiveHeap)
    /\ buffer_stat_alloc_bytes = SumAsize(LiveHeap) % SizeMod

\* C20 witness: after a bufreset, two heap buffers are live, one with no
\* storage and one with storage, and one more record has been freed before.
C20_Witness ==
    /\ last.op = "bufreset" /\ last.rc = 1
    /\ buffer_stat_nb = 2
    /\ buffer_stat_alloc_bytes = 2
    /\ \E a \in LiveHeap : mem[a].asize = 0
    /\ \E a \in LiveHeap : mem[a].asize = 2

====
